---------------------------- MODULE Spec2Model ----------------------------
(***************************************************************************)
(* DMR-ML-Pro: the position simulator (BacktestEngine.run_backtest), the   *)
(* two-threshold hysteresis gate, the SignalRule, the purged walk-forward  *)
(* loop of MLRiskModel.fit_predict, the grid search                        *)
(* (BacktestEngine.optimize_parameters) and the metrics                    *)
(* (BacktestEngine._calculate_metrics).                                    *)
(*                                                                         *)
(* Conventions                                                             *)
(*  - dates are the positions 0..n-1 of the common calendar (a strictly    *)
(*    increasing DatetimeIndex), one calendar day apart;                   *)
(*  - probabilities and thresholds are in percent (0.40 is 40);            *)
(*  - a net-asset value is the sequence of the factors that were           *)
(*    multiplied into 1.0, in the order the code multiplies them: the      *)
(*    empty sequence is 1.0.  The factor [k |-> "ret", a |-> "300",        *)
(*    i |-> 4] is (1 + d300['pct_chg'].iloc[4] / 100), [k |-> "rf"] is     *)
(*    (1 + daily_rf) and [k |-> "cost", i |-> 2] is (1 - commission * 2);  *)
(*  - the rows of the two price frames are drawn when the loop first       *)
(*    reaches them; close300 and close1000 hold the rows drawn so far.     *)
(***************************************************************************)
EXTENDS Integers, Sequences, FiniteSets, TLC

VARIABLES
    \* ---- BacktestEngine.run_backtest ----
    pc,               \* "idle" | "loop" | "done" | "raised"
    n,                \* len(common_idx)
    momentum_window,
    ma_window,
    use_ml,           \* ml_probs is not None
    close300,         \* d300['close'],  rows 0..k-1 drawn so far
    close1000,        \* d1000['close']
    i,                \* the loop index of the next day to simulate
    curve,            \* np.ones(n), then the equity curve
    pos,
    trades,
    entry_date,
    entry_val,
    risk_off,
    target,           \* the effective target of the last simulated day
    sig_target,       \* the SignalRule target of the last simulated day
    reads,            \* close / pct_chg positions read by the last day
    prob_reads,       \* dates looked up in ml_probs by the last day
    carried,          \* what the previous run on this engine left behind
    \* ---- hysteresis gate fed by a probability stream ----
    g_off,            \* risk_off of the inline gate of run_backtest
    s_off,            \* risk_off threaded through MLRiskModel.get_risk_signal
    g_p,              \* the probability of the last date (Missing: no value)
    g_trig,           \* trigger_threshold argument of get_risk_signal
    g_rel,            \* release_threshold argument of get_risk_signal
    g_low,            \* inline gate: was a p < release fed since its last trip
    s_low,            \* get_risk_signal: the same
    g_fed,            \* the distinct values ml_probs had on the dates fed so far
    \* ---- DMRStrategy.generate_signal ----
    sg_in,            \* the six inputs
    sg_out,           \* (position, reason) of generate_signal
    sg_inline,        \* target of the rule inlined in run_backtest, same inputs
    sg_daily,         \* dmr_signal of SignalGenerator.generate_signal, same inputs
    \* ---- MLRiskModel.fit_predict walk-forward loop ----
    wf_pc,            \* "idle" | "loop" | "done" | "raised"
    wf_len,           \* len(data)
    wf_tw,            \* train_window
    wf_h,             \* horizon
    wf_step,          \* step
    wf_nan,           \* rows 0..wf_nan-1 have a missing feature value
    wf_t,             \* the retrain index of the next iteration
    wf_at,            \* the retrain index of the last iteration
    wf_train,         \* rows of train_df in the last iteration
    wf_last,          \* "" | "skip" | "fit": what the last iteration did
    wf_classes,       \* len(np.unique(train_df['label'])) in the last iteration
    wf_blocks,        \* the blocks risk_probs.iloc[t : t + step] written, in order
    wf_fits,          \* len(all_importances): retrains that fitted a model
    \* ---- BacktestEngine.optimize_parameters ----
    op_pc,            \* "idle" | "loop" | "done"
    op_ml,            \* the argument ml_probs: TRUE a series, FALSE None
    op_calls,         \* the ml_probs handed to run_backtest, one per call
    momentum_range,
    ma_range,
    bench_ret,        \* in percent
    op_mi,            \* position in momentum_range of the next combination
    op_ai,            \* position in ma_range of the next combination
    results,          \* the rows appended so far
    best_score,
    best_params,
    best_result,      \* << >> is None, <<r>> the BacktestResult r
    \* ---- BacktestEngine._calculate_metrics ----
    mt_pc,            \* "idle" | "call" | "done" | "raised"
    mt_curve,         \* equity_curve, one calendar day between two values
    mt_trades,        \* trades: return_pct and holding_days of each
    mt_out,           \* the returned dict
    \* ---- the smoothing at the end of MLRiskModel.fit_predict ----
    ew_pc,            \* "idle" | "raw" | "done"
    ew_step,          \* step
    ew_fit,           \* per retrain, in order: TRUE fitted, FALSE skipped
    risk_probs,       \* the raw series, in tenths
    risk_probs_       \* self.risk_probs_, the smoothed series

bt_vars == <<pc, n, momentum_window, ma_window, use_ml, close300, close1000, i,
             curve, pos, trades, entry_date, entry_val, risk_off, target,
             sig_target, reads, prob_reads, carried>>
gate_vars == <<g_off, s_off, g_p, g_trig, g_rel, g_low, s_low, g_fed>>
sig_vars == <<sg_in, sg_out, sg_inline, sg_daily>>
wf_vars == <<wf_pc, wf_len, wf_tw, wf_h, wf_step, wf_nan, wf_t, wf_at, wf_train,
             wf_last, wf_classes, wf_blocks, wf_fits>>
opt_vars == <<op_pc, op_ml, op_calls, momentum_range, ma_range, bench_ret, op_mi, op_ai, results,
              best_score, best_params, best_result>>
met_vars == <<mt_pc, mt_curve, mt_trades, mt_out>>
ewm_vars == <<ew_pc, ew_step, ew_fit, risk_probs, risk_probs_>>
vars == <<bt_vars, gate_vars, sig_vars, wf_vars, opt_vars, met_vars, ewm_vars>>

----------------------------------------------------------------------------
(* Bounds *)

MaxN == 6          \* longest common calendar
MaxWin == 2        \* largest momentum_window / ma_window
ShortN == 4        \* calendars up to this length have a third price level
MaxH == 2          \* largest horizon
MaxStep == 2       \* largest step
MaxNan == 2        \* most leading rows with a missing feature
MaxGrid == 2       \* longest momentum_range
MaxCurve == 3      \* longest equity curve handed to _calculate_metrics
MaxTrades == 2     \* longest trade list handed to _calculate_metrics
MaxBlocks == 3     \* most retrain indices of a smoothed series
MaxDaily == 5      \* longest calendar of a run compared with the daily signal

(* Program constants (config.py), probabilities in percent *)
ml_trigger == 40
ml_release == 33

\* Python None and "the date is not in ml_probs.index"; no date, threshold or
\* probability of the model is negative
None == -1
Missing == -1
NoData == 0        \* what a read outside the drawn rows yields

\* probabilities a date of ml_probs can carry
Probs == {20, 33, 36, 40, 45}

Max(a, b) == IF a > b THEN a ELSE b
Min(a, b) == IF a < b THEN a ELSE b

----------------------------------------------------------------------------
(* Net-asset values as factor sequences *)

One == << >>
RetFactor(p, idx) ==
    IF p = "CASH" THEN [k |-> "rf", a |-> "CASH", i |-> 0]
                  ELSE [k |-> "ret", a |-> p, i |-> idx]
CostFactor(mult) == [k |-> "cost", a |-> "", i |-> mult]
Mul(v, f) == Append(v, f)
\* v / w - 1 for w a prefix of v: the factors of v after w
Quot(v, w) == SubSeq(v, Len(w) + 1, Len(v))


----------------------------------------------------------------------------
(* Reading the price frames: pandas .iloc on a frame of n rows *)

\* position a scalar .iloc[k] touches: a negative k counts from the end
IlocPos(k) == IF k < 0 THEN n + k ELSE k
Iloc(s, k) == IF IlocPos(k) \in DOMAIN s THEN s[IlocPos(k)] ELSE NoData
\* positions a slice .iloc[a:b] touches (b > 0): a negative a counts from the
\* end and is clipped at 0
SlicePos(a, b) == (IF a < 0 THEN Max(n + a, 0) ELSE a) .. (b - 1)

RECURSIVE SumOver(_, _)
SumOver(s, S) ==
    IF S = {} THEN 0
    ELSE LET k == CHOOSE x \in S : TRUE
         IN (IF k \in DOMAIN s THEN s[k] ELSE NoData) + SumOver(s, S \ {k})

\* warmup = max(momentum_window, ma_window) + 1
Warmup(mw, ma) == Max(mw, ma) + 1

\* one row too far back
MomIdx_OneMore(idx, mw) == idx - mw - 2

\* the row each momentum is measured against: iloc[i - momentum_window - 1]
MomIdx(idx, mw) == idx - mw - 1
\* the first row of the moving-average slice: iloc[i - ma_window + 1 : i + 1]
MaLo(idx, ma) == idx - ma + 1

\* close / pct_chg positions day idx touches
DayReads(idx, mw, ma) ==
    {idx} \cup {IlocPos(MomIdx(idx, mw))} \cup SlicePos(MaLo(idx, ma), idx + 1)

\* the moving-average slice close.iloc[i - ma_window + 1 : i + 1]: its sum
\* and its length. mean() is MaSum / MaCnt (NaN for an empty slice).
MaSum(s, idx, ma) == SumOver(s, SlicePos(MaLo(idx, ma), idx + 1))
MaCnt(idx, ma) == Cardinality(SlicePos(MaLo(idx, ma), idx + 1))
\* close.iloc[i - momentum_window - 1]
OldClose(s, idx, mw) == Iloc(s, MomIdx(idx, mw))

\* equal momenta go to the asset checked first
InlineRule_TieFirst(p300, p1000, m300, m1000, ma300_val, ma1000_val) ==
    LET sig300 == p300 > ma300_val /\ m300 > 0
        sig1000 == p1000 > ma1000_val /\ m1000 > 0
    IN  IF sig300 /\ sig1000 THEN (IF m300 >= m1000 THEN "300" ELSE "1000")
        ELSE IF sig300 THEN "300"
        ELSE IF sig1000 THEN "1000"
        ELSE "CASH"

\* lines 155-165: the SignalRule inlined in run_backtest
InlineRule(p300, p1000, m300, m1000, ma300_val, ma1000_val) ==
    LET sig300 == p300 > ma300_val /\ m300 > 0
        sig1000 == p1000 > ma1000_val /\ m1000 > 0
    IN  IF sig300 /\ sig1000 THEN (IF m300 > m1000 THEN "300" ELSE "1000")
        ELSE IF sig300 THEN "300"
        ELSE IF sig1000 THEN "1000"
        ELSE "CASH"

\* lines 146-165 on integers. With cnt = MaCnt and o300, o1000 the two old
\* closes (all positive), the prices and averages are scaled by cnt and the
\* momenta p / o - 1 by o300 * o1000: every comparison of the rule keeps
\* its outcome.
SignalTarget(c3, c1, idx, mw, ma) ==
    LET cnt == MaCnt(idx, ma)
        o300 == OldClose(c3, idx, mw)
        o1000 == OldClose(c1, idx, mw)
    IN  InlineRule(c3[idx] * cnt, c1[idx] * cnt,
                   (c3[idx] - o300) * o1000, (c1[idx] - o1000) * o300,
                   MaSum(c3, idx, ma), MaSum(c1, idx, ma))

----------------------------------------------------------------------------
(* The hysteresis gate *)

\* the gate trips at the threshold itself
InlineGate_AtTrigger(ml, off, p) ==
    IF ml /\ p # Missing
    THEN LET off2 == IF ~off /\ p >= ml_trigger THEN TRUE
                     ELSE IF off /\ p < ml_release THEN FALSE
                     ELSE off
             why == IF ~off /\ p >= ml_trigger THEN [kind |-> "ml", p |-> p]
                    ELSE [kind |-> "", p |-> 0]
         IN [risk_off |-> off2, exit_reason |-> why, force_cash |-> off2]
    ELSE [risk_off |-> off, exit_reason |-> [kind |-> "", p |-> 0],
          force_cash |-> FALSE]

\* run_backtest lines 169-178. p = Missing: current_date not in ml_probs.index.
\* Returns the new risk_off, the exit_reason and whether the target is
\* overridden to CASH.
InlineGate(ml, off, p) ==
    IF ml /\ p # Missing
    THEN LET off2 == IF ~off /\ p > ml_trigger THEN TRUE
                     ELSE IF off /\ p < ml_release THEN FALSE
                     ELSE off
             why == IF ~off /\ p > ml_trigger THEN [kind |-> "ml", p |-> p]
                    ELSE [kind |-> "", p |-> 0]
         IN [risk_off |-> off2, exit_reason |-> why, force_cash |-> off2]
    ELSE [risk_off |-> off, exit_reason |-> [kind |-> "", p |-> 0],
          force_cash |-> FALSE]

\* `x or default`: None and 0.0 are both falsy
OrDefault(x, dflt) == IF x = None \/ x = 0 THEN dflt ELSE x
EffTrigger(trig) == OrDefault(trig, ml_trigger)
EffRelease(rel) == OrDefault(rel, ml_release)

\* one threshold for both directions: no dead zone
get_risk_signal_OneThreshold(current_prob, is_risk_off, trigger_threshold, release_threshold) ==
    LET trigger == EffTrigger(trigger_threshold)
    IN  IF ~is_risk_off /\ current_prob > trigger THEN TRUE
        ELSE IF is_risk_off /\ current_prob < trigger THEN FALSE
        ELSE is_risk_off

\* MLRiskModel.get_risk_signal: the returned flag
get_risk_signal(current_prob, is_risk_off, trigger_threshold, release_threshold) ==
    LET trigger == EffTrigger(trigger_threshold)
        release == EffRelease(release_threshold)
    IN  IF ~is_risk_off /\ current_prob > trigger THEN TRUE
        ELSE IF is_risk_off /\ current_prob < release THEN FALSE
        ELSE is_risk_off

----------------------------------------------------------------------------
(* BacktestEngine.run_backtest *)

Positions == {"CASH", "300", "1000"}
\* close prices: two levels, and a third one for the 300 index on short
\* calendars (the two assets can then pass with different momenta)
Prices300(len) == IF len <= ShortN THEN {1, 2, 3} ELSE {1, 2}
Prices1000 == {1, 2}
SignalSwitch == [kind |-> "signal", p |-> 0]
ZeroVal == <<[k |-> "zero", a |-> "", i |-> 0]>>    \* entry_val = 0.0

Ones(len) == [k \in 0 .. len - 1 |-> One]           \* np.ones(n)

\* risk_off kept on the engine between calls
InitRiskOff_Stale(stale) == stale

\* lines 117-124: the locals every call starts from; the arguments are the
\* values the names held before the call
InitPos(stale) == "CASH"
InitRiskOff(stale) == FALSE
InitTrades(stale) == << >>

InitBT ==
    /\ pc = "idle"
    /\ n = 0 /\ momentum_window = 1 /\ ma_window = 1 /\ use_ml = FALSE
    /\ close300 = << >> /\ close1000 = << >>
    /\ i = 0
    /\ curve = << >>
    /\ pos = "CASH" /\ trades = << >> /\ entry_date = None /\ entry_val = ZeroVal
    /\ risk_off = FALSE
    /\ target = "CASH" /\ sig_target = "CASH"
    /\ reads = {} /\ prob_reads = {}
    /\ carried = FALSE

\* lines 110-131: a call of run_backtest on the engine. The rows before the
\* first simulated day are drawn here.
StartRun ==
    /\ pc = "idle"
    /\ \E len \in 0 .. MaxN, mw \in 1 .. MaxWin, ma \in 1 .. MaxWin, ml \in BOOLEAN :
         LET k == Min(Warmup(mw, ma), len) IN
         \E c3 \in [0 .. k - 1 -> Prices300(len)], c1 \in [0 .. k - 1 -> Prices1000] :
           /\ n' = len
           /\ momentum_window' = mw
           /\ ma_window' = ma
           /\ use_ml' = ml
           /\ close300' = c3
           /\ close1000' = c1
           /\ i' = Warmup(mw, ma)
           /\ curve' = Ones(len)
    /\ pos' = InitPos(pos)
    /\ trades' = InitTrades(trades)
    /\ entry_date' = None
    /\ entry_val' = ZeroVal
    /\ risk_off' = InitRiskOff(risk_off)
    /\ carried' = (pos # "CASH" \/ risk_off)
    /\ pc' = "loop"
    /\ target' = "CASH" /\ sig_target' = "CASH"
    /\ reads' = {} /\ prob_reads' = {}
    /\ UNCHANGED <<gate_vars, sig_vars, wf_vars, opt_vars, met_vars, ewm_vars>>

\* every position change costs one commission
CostMult_Flat(held, tgt) == 1

\* line 182: 2x the commission for an asset-to-asset switch, 1x otherwise
CostMult(held, tgt) == IF held # "CASH" /\ tgt # "CASH" THEN 2 ELSE 1

\* lines 136-143: settle the day's return of the position held
Settle(cv, held, idx) == Mul(cv[idx - 1], RetFactor(held, idx))

\* the entry is booked on the previous bar
NewEntryDate_PrevBar(held, tgt, edate, idx) ==
    IF tgt # held /\ tgt # "CASH" THEN idx - 1 ELSE edate

\* lines 199-200: a position opened today is entered today
NewEntryDate(held, tgt, edate, idx) ==
    IF tgt # held /\ tgt # "CASH" THEN idx ELSE edate

\* a trade is recorded only when the position goes to cash
ClosesTrade_ToCashOnly(held, tgt, edate) ==
    tgt = "CASH" /\ held # "CASH" /\ edate # None

\* lines 181, 185: the position changes and one was held
ClosesTrade(held, tgt, edate) == tgt # held /\ held # "CASH" /\ edate # None

\* the exit is booked on the previous bar
MakeTrade_PrevBar(held, edate, eval, idx, nav, why) ==
    [asset |-> held, entry_date |-> edate, exit_date |-> idx - 1,
     entry_value |-> eval, exit_value |-> nav,
     return_pct |-> Quot(nav, eval),
     holding_days |-> idx - 1 - edate,
     exit_reason |-> IF why.kind # "" THEN why ELSE [kind |-> "signal", p |-> 0]]

\* line 201: entry_val = curve[i] * (1 - commission * cost_mult)
EntryValue_BeforeCost(nav, cost) == nav
EntryValue(nav, cost) == Mul(nav, cost)

\* lines 186-196
MakeTrade(held, edate, eval, idx, nav, why) ==
    [asset |-> held, entry_date |-> edate, exit_date |-> idx,
     entry_value |-> eval, exit_value |-> nav,
     return_pct |-> Quot(nav, eval),
     holding_days |-> idx - edate,
     exit_reason |-> IF why.kind # "" THEN why ELSE SignalSwitch]

\* lines 208-223: the result is built. equity_curve.iloc[-1] raises on an
\* empty calendar and common_idx[warmup] raises when warmup >= n.
Returned(len, mw, ma) == IF len = 0 \/ Warmup(mw, ma) >= len THEN "raised" ELSE "done"

\* lines 132-223: one iteration of the loop, day i; after the last one the
\* loop is left and the result is built
Step ==
    /\ pc = "loop"
    /\ i < n
    /\ \E p3 \in Prices300(n), p1 \in Prices1000,
          p_risk \in (IF use_ml THEN Probs \cup {Missing} ELSE {Missing}) :
         LET c3 == [k \in 0 .. i |-> IF k = i THEN p3 ELSE close300[k]]
             c1 == [k \in 0 .. i |-> IF k = i THEN p1 ELSE close1000[k]]
             nav == Settle(curve, pos, i)
             sgt == SignalTarget(c3, c1, i, momentum_window, ma_window)
             gate == InlineGate(use_ml, risk_off, p_risk)
             tgt == IF gate.force_cash THEN "CASH" ELSE sgt
             cost == CostFactor(CostMult(pos, tgt))
             closes == ClosesTrade(pos, tgt, entry_date)
             opens == tgt # pos /\ tgt # "CASH"
         IN
           /\ close300' = c3
           /\ close1000' = c1
           /\ sig_target' = sgt
           /\ target' = tgt
           /\ risk_off' = gate.risk_off
           /\ trades' = IF closes
                        THEN Append(trades, MakeTrade(pos, entry_date, entry_val,
                                                      i, nav, gate.exit_reason))
                        ELSE trades
           /\ entry_date' = NewEntryDate(pos, tgt, entry_date, i)
           /\ entry_val' = IF opens THEN EntryValue(nav, cost) ELSE entry_val
           /\ curve' = [curve EXCEPT ![i] = IF tgt # pos THEN Mul(nav, cost) ELSE nav]
           /\ pos' = tgt
           /\ reads' = DayReads(i, momentum_window, ma_window)
           /\ prob_reads' = IF use_ml THEN {i} ELSE {}
    /\ i' = i + 1
    /\ pc' = IF i + 1 < n THEN "loop" ELSE Returned(n, momentum_window, ma_window)
    /\ carried' = FALSE
    /\ UNCHANGED <<n, momentum_window, ma_window, use_ml>>
    /\ UNCHANGED <<gate_vars, sig_vars, wf_vars, opt_vars, met_vars, ewm_vars>>

\* lines 132, 208-223: a loop of no iteration (n <= warmup)
Finish ==
    /\ pc = "loop"
    /\ i >= n
    /\ pc' = Returned(n, momentum_window, ma_window)
    /\ carried' = FALSE
    /\ UNCHANGED <<n, momentum_window, ma_window, use_ml, close300, close1000, i,
                   curve, pos, trades, entry_date, entry_val, risk_off, target,
                   sig_target, reads, prob_reads>>
    /\ UNCHANGED <<gate_vars, sig_vars, wf_vars, opt_vars, met_vars, ewm_vars>>

\* the call has returned (or raised): the caller owns the result and the
\* engine is ready for the next call. What the names pos and risk_off last
\* held is kept, everything else of the frame is dropped.
Return ==
    /\ pc \in {"done", "raised"}
    /\ pc' = "idle"
    /\ n' = 0 /\ momentum_window' = 1 /\ ma_window' = 1 /\ use_ml' = FALSE
    /\ close300' = << >> /\ close1000' = << >>
    /\ i' = 0
    /\ curve' = << >>
    /\ trades' = << >> /\ entry_date' = None /\ entry_val' = ZeroVal
    /\ target' = "CASH" /\ sig_target' = "CASH"
    /\ reads' = {} /\ prob_reads' = {}
    /\ UNCHANGED <<pos, risk_off, carried>>
    /\ UNCHANGED <<gate_vars, sig_vars, wf_vars, opt_vars, met_vars, ewm_vars>>

InitGate ==
    /\ g_off = FALSE /\ s_off = FALSE /\ g_p = Missing
    /\ g_trig = None /\ g_rel = None
    /\ g_low = "never" /\ s_low = "never" /\ g_fed = {}
InitSig == sg_in = << >> /\ sg_out = << >> /\ sg_inline = "" /\ sg_daily = ""
InitWF ==
    /\ wf_pc = "idle" /\ wf_len = 0 /\ wf_tw = 0 /\ wf_h = 0 /\ wf_step = 0
    /\ wf_nan = 0 /\ wf_t = 0 /\ wf_at = 0 /\ wf_train = {} /\ wf_last = ""
    /\ wf_classes = 0
    /\ wf_blocks = << >> /\ wf_fits = 0


\* optimize_parameters lines 348-351
InitBestScore == -999
DefaultBestParams == <<20, 12>>
InitOpt ==
    /\ op_pc = "idle" /\ momentum_range = << >> /\ ma_range = << >>
    /\ op_ml = FALSE /\ op_calls = << >>
    /\ bench_ret = 0 /\ op_mi = 1 /\ op_ai = 1
    /\ results = << >>
    /\ best_score = InitBestScore
    /\ best_params = DefaultBestParams
    /\ best_result = << >>
InitMet == mt_pc = "idle" /\ mt_curve = << >> /\ mt_trades = << >> /\ mt_out = << >>
InitEwm ==
    /\ ew_pc = "idle" /\ ew_step = 1 /\ ew_fit = << >>
    /\ risk_probs = << >> /\ risk_probs_ = << >>

Init == InitBT /\ InitGate /\ InitSig /\ InitWF /\ InitOpt /\ InitMet /\ InitEwm
Next == StartRun \/ Step \/ Finish \/ Return
Spec == Init /\ [][Next]_vars

----------------------------------------------------------------------------
(* run_backtest called with any window, as a caller or a range of          *)
(* optimize_parameters can pass it                                         *)

\* lines 110-131 again: nothing tests the windows, so a call whose windows
\* are 0 starts like any other. Short calendars, no probabilities (the call
\* optimize_parameters makes).
StartRunAnyWindow ==
    /\ pc = "idle"
    /\ \E len \in 0 .. ShortN, mw \in 0 .. MaxWin, ma \in 0 .. MaxWin :
         LET k == Min(Warmup(mw, ma), len) IN
         \E c3 \in [0 .. k - 1 -> Prices300(len)], c1 \in [0 .. k - 1 -> Prices1000] :
           /\ n' = len
           /\ momentum_window' = mw
           /\ ma_window' = ma
           /\ close300' = c3
           /\ close1000' = c1
           /\ i' = Warmup(mw, ma)
           /\ curve' = Ones(len)
    /\ use_ml' = FALSE
    /\ pos' = InitPos(pos)
    /\ trades' = InitTrades(trades)
    /\ entry_date' = None
    /\ entry_val' = ZeroVal
    /\ risk_off' = InitRiskOff(risk_off)
    /\ carried' = (pos # "CASH" \/ risk_off)
    /\ pc' = "loop"
    /\ target' = "CASH" /\ sig_target' = "CASH"
    /\ reads' = {} /\ prob_reads' = {}
    /\ UNCHANGED <<gate_vars, sig_vars, wf_vars, opt_vars, met_vars, ewm_vars>>

NextAnyWindow == StartRunAnyWindow \/ Step \/ Finish \/ Return
SpecAnyWindow == Init /\ [][NextAnyWindow]_vars

----------------------------------------------------------------------------
(* The two gates fed by one probability stream *)

\* threshold arguments a caller of get_risk_signal passes
Thresholds == {None, 0, 20, 36, 45}

\* DMRMLStrategy.generate_signals lines 492-495: a date without a value is 0.0
ProbOrZero(p) == IF p = Missing THEN 0 ELSE p

\* "never": no trip yet; "no" / "again": nothing below release since the
\* first / a later trip; "yes": a probability below release since the last trip
Low(low, off, off2, p, release) ==
    IF ~off /\ off2 THEN (IF low = "never" THEN "no" ELSE "again")
    ELSE IF low \in {"no", "again"} /\ p # Missing /\ p < release THEN "yes"
    ELSE low

InitGateSpec ==
    /\ InitBT /\ InitSig /\ InitWF /\ InitOpt /\ InitMet /\ InitEwm
    /\ g_off = FALSE /\ s_off = FALSE /\ g_p = Missing
    /\ g_trig \in Thresholds /\ g_rel \in Thresholds
    /\ g_low = "never" /\ s_low = "never" /\ g_fed = {}

\* one date: the inline gate of run_backtest and a caller threading risk_off
\* through get_risk_signal (as generate_signals line 498 does) see the same p
GateFeed ==
    /\ \E p \in Probs \cup {0, Missing} :
         LET g2 == InlineGate(TRUE, g_off, p).risk_off
             s2 == get_risk_signal(ProbOrZero(p), s_off, g_trig, g_rel)
         IN /\ g_p' = p
            /\ g_off' = g2
            /\ s_off' = s2
            /\ g_low' = Low(g_low, g_off, g2, p, ml_release)
            /\ s_low' = Low(s_low, s_off, s2, ProbOrZero(p), EffRelease(g_rel))
            /\ g_fed' = g_fed \cup {p}
    /\ UNCHANGED <<g_trig, g_rel>>
    /\ UNCHANGED <<bt_vars, sig_vars, wf_vars, opt_vars, met_vars, ewm_vars>>

NextGate == GateFeed
SpecGate == InitGateSpec /\ [][NextGate]_vars

----------------------------------------------------------------------------
(* DMRStrategy.generate_signal *)

\* the absolute-momentum filter without the moving-average test
generate_signal_NoMA(price_300, price_1000, momentum_300, momentum_1000, ma_300, ma_1000) ==
    LET sig_300 == momentum_300 > 0
        sig_1000 == momentum_1000 > 0
    IN  IF sig_300 /\ sig_1000
        THEN (IF momentum_300 > momentum_1000
              THEN <<"300", "both long, large cap stronger">>
              ELSE <<"1000", "both long, small cap stronger">>)
        ELSE IF sig_300 THEN <<"300", "large cap long, small cap weak">>
        ELSE IF sig_1000 THEN <<"1000", "small cap long, large cap weak">>
        ELSE <<"CASH", "no valid signal">>

\* lines 131-147
generate_signal(price_300, price_1000, momentum_300, momentum_1000, ma_300, ma_1000) ==
    LET sig_300 == price_300 > ma_300 /\ momentum_300 > 0
        sig_1000 == price_1000 > ma_1000 /\ momentum_1000 > 0
    IN  IF sig_300 /\ sig_1000
        THEN (IF momentum_300 > momentum_1000
              THEN <<"300", "both long, large cap stronger">>
              ELSE <<"1000", "both long, small cap stronger">>)
        ELSE IF sig_300 THEN <<"300", "large cap long, small cap weak">>
        ELSE IF sig_1000 THEN <<"1000", "small cap long, large cap weak">>
        ELSE <<"CASH", "no valid signal">>

\* the names SignalGenerator reports: "沪深300", "中证1000" and "空仓"
Csi300 == "CSI300"
Csi1000 == "CSI1000"
Flat == "FLAT"
\* the name the daily signal has for a position of the simulator
SignalName(position) ==
    IF position = "300" THEN Csi300
    ELSE IF position = "1000" THEN Csi1000
    ELSE Flat

\* the daily rule with equal momenta going to the asset checked first
DailyDmrSignal_TieFirst(p300, p1000, mom300, mom1000, ma300, ma1000) ==
    LET sig300 == p300 > ma300 /\ mom300 > 0
        sig1000 == p1000 > ma1000 /\ mom1000 > 0
    IN  IF sig300 /\ sig1000
        THEN (IF mom300 >= mom1000 THEN Csi300 ELSE Csi1000)
        ELSE IF sig300 THEN Csi300
        ELSE IF sig1000 THEN Csi1000
        ELSE Flat

\* reports.py lines 368-387: dmr_signal of SignalGenerator.generate_signal
DailyDmrSignal(p300, p1000, mom300, mom1000, ma300, ma1000) ==
    LET sig300 == p300 > ma300 /\ mom300 > 0
        sig1000 == p1000 > ma1000 /\ mom1000 > 0
    IN  IF sig300 /\ sig1000
        THEN (IF mom300 > mom1000 THEN Csi300 ELSE Csi1000)
        ELSE IF sig300 THEN Csi300
        ELSE IF sig1000 THEN Csi1000
        ELSE Flat

SigPrices == {1, 2}
SigMomenta == {-1, 0, 1, 2}
SigMAs == {1, 2}

InitSigSpec ==
    /\ InitBT /\ InitGate /\ InitWF /\ InitOpt /\ InitMet /\ InitEwm
    /\ sg_in \in SigPrices \X SigPrices \X SigMomenta \X SigMomenta \X SigMAs \X SigMAs
    /\ sg_out = << >>
    /\ sg_inline = ""
    /\ sg_daily = ""

CallGenerateSignal ==
    /\ sg_out = << >>
    /\ sg_out' = generate_signal(sg_in[1], sg_in[2], sg_in[3], sg_in[4], sg_in[5], sg_in[6])
    /\ sg_inline' = InlineRule(sg_in[1], sg_in[2], sg_in[3], sg_in[4], sg_in[5], sg_in[6])
    /\ sg_daily' = DailyDmrSignal(sg_in[1], sg_in[2], sg_in[3], sg_in[4], sg_in[5], sg_in[6])
    /\ UNCHANGED sg_in
    /\ UNCHANGED <<bt_vars, gate_vars, wf_vars, opt_vars, met_vars, ewm_vars>>

NextSig == CallGenerateSignal
SpecSig == InitSigSpec /\ [][NextSig]_vars

----------------------------------------------------------------------------
(* MLRiskModel.fit_predict: the purged walk-forward loop *)

MinTrainRows == 100

\* rows data.iloc[a : b] of a frame of len rows; a negative bound counts from
\* the end, both are clipped to the frame
ClipIdx(k, len) == IF k < 0 THEN Max(len + k, 0) ELSE Min(k, len)
IlocRows(a, b, len) == ClipIdx(a, len) .. (ClipIdx(b, len) - 1)

\* no purge gap
TrainHi_NoPurge(t, h) == t

\* line 321: data.iloc[t - train_window : t - horizon]
TrainHi(t, h) == t - h
TrainSlice(t, tw, h, len) == IlocRows(t - tw, TrainHi(t, h), len)
\* .dropna(): the rows with a missing feature value go
DropNa(rows, nan) == {j \in rows : j >= nan}

\* the block starts on the last row of the one before
PredBlock_FromPrev(t, step, len) == IlocRows(t - 1, t + step, len)

\* line 338-339: risk_probs.iloc[t : t + step]
PredBlock(t, step, len) == IlocRows(t, t + step, len)

\* compute_risk_label: ret.shift(-horizon).rolling(horizon).min() at row j
\* looks at rows j-horizon+1 .. j of the shifted series, row k of which is
\* ret[k + horizon]. These are the returns label[j] is computed from.
LabelReturns(j, h, len) ==
    {k + h : k \in Max(j - h + 1, 0) .. j} \cap (0 .. len - 1)

\* line 317: range(train_window + horizon, len(data) - horizon, step)
FirstT(tw, h) == tw + h
InRange(t, len, h) == t < len - h

TrainWindows == {3, 4, MinTrainRows + 1, MinTrainRows + 2}

InitWFSpec ==
    /\ InitBT /\ InitGate /\ InitSig /\ InitOpt /\ InitMet /\ InitEwm
    /\ wf_pc = "loop"
    /\ wf_tw \in TrainWindows
    /\ wf_h \in 1 .. MaxH
    /\ wf_step \in 1 .. MaxStep
    /\ wf_len \in {0} \cup (wf_tw .. wf_tw + 2 * wf_h + 2 * wf_step + 1)
    /\ wf_nan \in 0 .. MaxNan
    /\ wf_t = FirstT(wf_tw, wf_h)
    /\ wf_at = 0 /\ wf_train = {} /\ wf_last = "" /\ wf_classes = 0
    /\ wf_blocks = << >> /\ wf_fits = 0

\* only the number of rows is tested
SkipRetrain_RowsOnly(rows, classes) == rows < MinTrainRows

\* line 324: len(train_df) < 100 or len(np.unique(train_df['label'])) < 2
SkipRetrain(rows, classes) == rows < MinTrainRows \/ classes < 2

\* lines 317-342: one iteration. Whether the labels of the training rows
\* have two classes depends on the returns; both cases are taken.
Retrain ==
    /\ wf_pc = "loop"
    /\ InRange(wf_t, wf_len, wf_h)
    /\ LET train_df == DropNa(TrainSlice(wf_t, wf_tw, wf_h, wf_len), wf_nan) IN
       \E classes \in 1 .. 2 :
         /\ wf_train' = train_df
         /\ wf_classes' = classes
         /\ IF SkipRetrain(Cardinality(train_df), classes)
            THEN /\ wf_last' = "skip"
                 /\ UNCHANGED <<wf_blocks, wf_fits>>
            ELSE /\ wf_last' = "fit"
                 /\ wf_blocks' = Append(wf_blocks, PredBlock(wf_t, wf_step, wf_len))
                 /\ wf_fits' = wf_fits + 1
    /\ wf_at' = wf_t
    /\ wf_t' = wf_t + wf_step
    /\ UNCHANGED <<wf_pc, wf_len, wf_tw, wf_h, wf_step, wf_nan>>
    /\ UNCHANGED <<bt_vars, gate_vars, sig_vars, opt_vars, met_vars, ewm_vars>>

\* lines 344-362: smoothing, then `self.model = model`, which raises
\* UnboundLocalError when no iteration bound the name model
EndFit ==
    /\ wf_pc = "loop"
    /\ ~InRange(wf_t, wf_len, wf_h)
    /\ wf_pc' = IF wf_fits = 0 THEN "raised" ELSE "done"
    /\ UNCHANGED <<wf_len, wf_tw, wf_h, wf_step, wf_nan, wf_t, wf_at, wf_train,
                   wf_last, wf_classes, wf_blocks, wf_fits>>
    /\ UNCHANGED <<bt_vars, gate_vars, sig_vars, opt_vars, met_vars, ewm_vars>>

NextWF == Retrain \/ EndFit
SpecWF == InitWFSpec /\ [][NextWF]_vars

----------------------------------------------------------------------------
(* BacktestEngine.optimize_parameters: the grid search *)

\* config.py: max_drawdown_limit = -0.20, in percent
max_dd_limit == -20

\* what a run of run_backtest can report, in percent; sharpe_ratio is the
\* default metric. Every metric of a run lies above the initial best_score.
TotalReturns == {5, 10}
Drawdowns == {-20, -10}
Sharpes == {1, 2}
BenchReturns == {0, 5}

\* the windows range(1, k + 1)
RangeList(k) == [j \in 1 .. k |-> j]

\* line 362
IsPass(total_return, bench, max_drawdown) ==
    total_return > bench /\ max_drawdown > max_dd_limit

\* the score alone decides
Improves_AnyScore(is_pass, score, best) == score > best

\* line 384: if is_pass and score > best_score
Improves(is_pass, score, best) == is_pass /\ score > best

\* lines 355-359: the ml_probs a grid run receives (TRUE a series, FALSE
\* None), given the ml_probs argument of optimize_parameters
GridRunMl_PassThrough(ml_probs) == ml_probs
GridRunMl(ml_probs) == FALSE

InitOptSpec ==
    /\ InitBT /\ InitGate /\ InitSig /\ InitWF /\ InitMet /\ InitEwm
    /\ op_pc = "loop"
    /\ op_ml \in BOOLEAN
    /\ op_calls = << >>
    /\ momentum_range \in {RangeList(k) : k \in 0 .. MaxGrid}
    /\ ma_range \in {RangeList(k) : k \in 1 .. 2}
    /\ bench_ret \in BenchReturns
    /\ op_mi = 1 /\ op_ai = 1
    /\ results = << >>
    /\ best_score = InitBestScore
    /\ best_params = DefaultBestParams
    /\ best_result = << >>

\* lines 353-387: the body of the nested loops for one combination. The
\* run made for it (ml_probs = None) reports some return, drawdown and score.
Evaluate ==
    /\ op_pc = "loop"
    /\ op_mi <= Len(momentum_range)
    /\ LET mom == momentum_range[op_mi]
           ma == ma_range[op_ai]
       IN \E tr \in TotalReturns, dd \in Drawdowns, sh \in Sharpes :
            LET result == [momentum_window |-> mom, ma_window |-> ma,
                           total_return |-> tr, max_drawdown |-> dd,
                           sharpe_ratio |-> sh]
                is_pass == IsPass(tr, bench_ret, dd)
                score == result.sharpe_ratio
                better == Improves(is_pass, score, best_score)
            IN /\ op_calls' = Append(op_calls, GridRunMl(op_ml))
               /\ results' = Append(results,
                                    [momentum |-> mom, ma |-> ma,
                                     total_return |-> tr, max_drawdown |-> dd,
                                     sharpe_ratio |-> sh, is_pass |-> is_pass])
               /\ best_score' = IF better THEN score ELSE best_score
               /\ best_params' = IF better THEN <<mom, ma>> ELSE best_params
               /\ best_result' = IF better THEN <<result>> ELSE best_result
    /\ IF op_ai < Len(ma_range)
       THEN op_ai' = op_ai + 1 /\ op_mi' = op_mi
       ELSE op_ai' = 1 /\ op_mi' = op_mi + 1
    /\ UNCHANGED <<op_pc, op_ml, momentum_range, ma_range, bench_ret>>
    /\ UNCHANGED <<bt_vars, gate_vars, sig_vars, wf_vars, met_vars, ewm_vars>>

\* lines 389-401: the loops are over, the three values are returned
ReturnBest ==
    /\ op_pc = "loop"
    /\ op_mi > Len(momentum_range)
    /\ op_pc' = "done"
    /\ UNCHANGED <<op_ml, op_calls, momentum_range, ma_range, bench_ret, op_mi,
                   op_ai, results,
                   best_score, best_params, best_result>>
    /\ UNCHANGED <<bt_vars, gate_vars, sig_vars, wf_vars, met_vars, ewm_vars>>

NextOpt == Evaluate \/ ReturnBest
SpecOpt == InitOptSpec /\ [][NextOpt]_vars

----------------------------------------------------------------------------
(* BacktestEngine._calculate_metrics *)

\* A metric is the fraction num / den (den > 0). Three metrics are not
\* rational: irr names what is still to be applied to the fraction, a
\* division by a positive standard deviation ("std", "downside_std") or the
\* power (1 + x) ** (365 / days) - 1 ("pow"); each keeps the sign of the
\* fraction and is 0 exactly when num is 0.
Frac(a, b) == [num |-> a, den |-> b, irr |-> ""]
Irr(x, what) == [num |-> x.num, den |-> x.den, irr |-> what]
Zero == Frac(0, 1)
IsZero(x) == x.num = 0
FracLt(x, y) == x.num * y.den < y.num * x.den
FracEq(x, y) == x.num * y.den = y.num * x.den
FracAdd(x, y) == Frac(x.num * y.den + y.num * x.den, x.den * y.den)

RECURSIVE FracSum(_)
FracSum(q) == IF q = << >> THEN Zero ELSE FracAdd(q[1], FracSum(Tail(q)))
RECURSIVE IntSum(_)
IntSum(q) == IF q = << >> THEN 0 ELSE q[1] + IntSum(Tail(q))
\* np.mean / Series.mean of a non-empty sequence
FracMean(q) == LET t == FracSum(q) IN Frac(t.num, t.den * Len(q))
Abs(x) == IF x < 0 THEN -x ELSE x

\* values an equity curve takes, and the trades of a list
NavLevels == {1, 2}
TradeRows == [return_pct : {-1, 0, 1}, holding_days : {1, 3}]

\* equity_curve.cummax() at position k
CumMax(c, k) == CHOOSE m \in {c[j] : j \in 1 .. k} : \A j \in 1 .. k : c[j] <= m
\* lines 238-240: drawdown.min()
MaxDrawdown(c) ==
    LET dd == [k \in 1 .. Len(c) |-> Frac(c[k] - CumMax(c, k), CumMax(c, k))]
    IN  dd[CHOOSE k \in 1 .. Len(c) : \A j \in 1 .. Len(c) : ~FracLt(dd[j], dd[k])]
\* line 243: equity_curve.pct_change().dropna()
DailyRet(c) == [k \in 1 .. Len(c) - 1 |-> Frac(c[k + 1] - c[k], c[k])]

\* std() >= 0: true of every defined standard deviation
StdPositive_OrZero(rets) == Len(rets) >= 2

\* rets.std() > 0: the sample standard deviation is NaN for fewer than two
\* values and 0 when they are all equal
StdPositive(rets) ==
    \E j, k \in 1 .. Len(rets) : ~FracEq(rets[j], rets[k])

\* daily_ret.mean() * 252 - risk_free, risk_free = 0.03
Excess(rets) ==
    LET m == FracMean(rets)
    IN  Frac(m.num * 252 * 100 - 3 * m.den, m.den * 100)

IsNeg(x) == x.num < 0
IsWin(t) == t.return_pct > 0
IsLoss(t) == t.return_pct <= 0
ReturnOf(ts) == [k \in 1 .. Len(ts) |-> Frac(ts[k].return_pct, 1)]
AbsReturnOf(ts) == [k \in 1 .. Len(ts) |-> Frac(Abs(ts[k].return_pct), 1)]

\* lines 231-294, on a non-empty curve
calculate_metrics(equity_curve, trade_list) ==
    LET total_return == Frac(equity_curve[Len(equity_curve)] - equity_curve[1],
                             equity_curve[1])
        days == Len(equity_curve) - 1
        daily_ret == DailyRet(equity_curve)
        downside_ret == SelectSeq(daily_ret, IsNeg)
        total_trades == Len(trade_list)
        winning_trades == Len(SelectSeq(trade_list, IsWin))
        profits == ReturnOf(SelectSeq(trade_list, IsWin))
        losses == AbsReturnOf(SelectSeq(trade_list, IsLoss))
        avg_profit == IF profits # << >> THEN FracMean(profits) ELSE Zero
        avg_loss == IF losses # << >> THEN FracMean(losses) ELSE Zero
    IN  [total_return |-> total_return,
         annual_return |-> IF days > 0 THEN Irr(total_return, "pow") ELSE Zero,
         max_drawdown |-> MaxDrawdown(equity_curve),
         sharpe_ratio |-> IF StdPositive(daily_ret)
                          THEN Irr(Excess(daily_ret), "std") ELSE Zero,
         sortino_ratio |-> IF Len(downside_ret) > 0 /\ StdPositive(downside_ret)
                           THEN Irr(Excess(daily_ret), "downside_std") ELSE Zero,
         win_rate |-> IF total_trades > 0
                      THEN Frac(winning_trades, total_trades) ELSE Zero,
         profit_loss_ratio |->
             IF total_trades > 0
             THEN (IF avg_loss.num > 0
                   THEN Frac(avg_profit.num * avg_loss.den,
                             avg_profit.den * avg_loss.num)
                   ELSE Frac(999, 10))
             ELSE Zero,
         total_trades |-> total_trades,
         winning_trades |-> IF total_trades > 0 THEN winning_trades ELSE 0,
         losing_trades |-> IF total_trades > 0
                           THEN total_trades - winning_trades ELSE 0,
         avg_holding_days |->
             IF total_trades > 0
             THEN Frac(IntSum([k \in 1 .. total_trades |->
                                  trade_list[k].holding_days]), total_trades)
             ELSE Zero]

InitMetSpec ==
    /\ InitBT /\ InitGate /\ InitSig /\ InitWF /\ InitOpt /\ InitEwm
    /\ mt_pc = "call"
    /\ mt_curve \in UNION {[1 .. k -> NavLevels] : k \in 0 .. MaxCurve}
    /\ mt_trades \in UNION {[1 .. k -> TradeRows] : k \in 0 .. MaxTrades}
    /\ mt_out = << >>

\* the call: equity_curve.iloc[-1] (line 233) raises IndexError on an empty
\* curve
CallCalculateMetrics ==
    /\ mt_pc = "call"
    /\ IF Len(mt_curve) = 0
       THEN mt_pc' = "raised" /\ mt_out' = << >>
       ELSE mt_pc' = "done" /\ mt_out' = calculate_metrics(mt_curve, mt_trades)
    /\ UNCHANGED <<mt_curve, mt_trades>>
    /\ UNCHANGED <<bt_vars, gate_vars, sig_vars, wf_vars, opt_vars, ewm_vars>>

NextMet == CallCalculateMetrics
SpecMet == InitMetSpec /\ [][NextMet]_vars

----------------------------------------------------------------------------
(* The raw series of MLRiskModel.fit_predict and its smoothing.  The series
   starts as zeros; each retrain index either skips (continue) or writes the
   predicted probabilities of its block; after the loop the series is
   smoothed with ewm(span=5).mean().  Probabilities are in tenths; a
   smoothed value is an exact fraction. *)

EwmSpan == 5
\* alpha = 2 / (span + 1), so 1 - alpha = (span - 1) / (span + 1)
EwmKeep == EwmSpan - 1
EwmBase == EwmSpan + 1
LeadRows == 1                 \* rows before the first retrain index
EwmSteps == {1, 2}            \* values of step
RawProbs == {0, 1, 2}         \* values of predict_proba(...)[:, 1]

RECURSIVE Pow(_, _)
Pow(b, e) == IF e = 0 THEN 1 ELSE b * Pow(b, e - 1)

\* Series.ewm(span).mean() with the default adjust=True: the value at row t
\* is sum_i (1-alpha)^i x[t-i] / sum_i (1-alpha)^i, here with numerator and
\* denominator both scaled by EwmBase^(t-1).
RECURSIVE EwmNum(_, _)
EwmNum(x, t) ==
    IF t = 0 THEN 0 ELSE EwmKeep * EwmNum(x, t - 1) + Pow(EwmBase, t - 1) * x[t]
RECURSIVE EwmDen(_)
EwmDen(t) == IF t = 0 THEN 0 ELSE EwmKeep * EwmDen(t - 1) + Pow(EwmBase, t - 1)
EwmMean(x) == [t \in 1 .. Len(x) |-> Frac(EwmNum(x, t), EwmDen(t))]

\* rows (1-based) of the block of the b-th retrain index
BlockRows(b, step) == (LeadRows + (b - 1) * step + 1) .. (LeadRows + b * step)
NumBlocks == (Len(risk_probs) - LeadRows) \div ew_step

InitEwmSpec ==
    /\ ew_pc = "loop"
    /\ ew_step \in EwmSteps
    /\ ew_fit = << >>
    /\ \E nb \in 1 .. MaxBlocks :
          risk_probs = [t \in 1 .. LeadRows + nb * ew_step |-> 0]
    /\ risk_probs_ = << >>
    /\ InitBT /\ InitGate /\ InitSig /\ InitWF /\ InitOpt /\ InitMet

\* a retrain index whose training rows fail the quality test: continue
SkipBlock ==
    /\ ew_pc = "loop" /\ Len(ew_fit) < NumBlocks
    /\ ew_fit' = Append(ew_fit, FALSE)
    /\ UNCHANGED <<ew_pc, ew_step, risk_probs, risk_probs_>>
    /\ UNCHANGED <<bt_vars, gate_vars, sig_vars, wf_vars, opt_vars, met_vars>>

\* a retrain index that fits: risk_probs.iloc[t: t + step] = predictions
PredictBlock ==
    /\ ew_pc = "loop" /\ Len(ew_fit) < NumBlocks
    /\ \E pred \in [BlockRows(Len(ew_fit) + 1, ew_step) -> RawProbs] :
          risk_probs' = [t \in 1 .. Len(risk_probs) |->
                            IF t \in DOMAIN pred THEN pred[t] ELSE risk_probs[t]]
    /\ ew_fit' = Append(ew_fit, TRUE)
    /\ UNCHANGED <<ew_pc, ew_step, risk_probs_>>
    /\ UNCHANGED <<bt_vars, gate_vars, sig_vars, wf_vars, opt_vars, met_vars>>

\* self.risk_probs_ = risk_probs.ewm(span=5).mean()
Smooth ==
    /\ ew_pc = "loop" /\ Len(ew_fit) = NumBlocks
    /\ risk_probs_' = EwmMean(risk_probs)
    /\ ew_pc' = "done"
    /\ UNCHANGED <<ew_step, ew_fit, risk_probs>>
    /\ UNCHANGED <<bt_vars, gate_vars, sig_vars, wf_vars, opt_vars, met_vars>>

NextEwm == SkipBlock \/ PredictBlock \/ Smooth
SpecEwm == InitEwmSpec /\ [][NextEwm]_vars

----------------------------------------------------------------------------
(* The daily signal next to the simulator: run_backtest with a complete
   probability series, and SignalGenerator.generate_signal on the same
   frames, windows and series.  g_p holds the probability of the last date
   the run has read, ml_probs.iloc[-1] once the run is done. *)

StartRunDaily ==
    /\ pc = "idle"
    /\ \E len \in 0 .. MaxDaily, mw \in 1 .. MaxWin, ma \in 1 .. MaxWin :
         LET k == Min(Warmup(mw, ma), len) IN
         \E c3 \in [0 .. k - 1 -> Prices300(len)], c1 \in [0 .. k - 1 -> Prices1000] :
           /\ n' = len
           /\ momentum_window' = mw
           /\ ma_window' = ma
           /\ use_ml' = TRUE
           /\ close300' = c3
           /\ close1000' = c1
           /\ i' = Warmup(mw, ma)
           /\ curve' = Ones(len)
    /\ pos' = InitPos(pos)
    /\ trades' = InitTrades(trades)
    /\ entry_date' = None
    /\ entry_val' = ZeroVal
    /\ risk_off' = InitRiskOff(risk_off)
    /\ carried' = (pos # "CASH" \/ risk_off)
    /\ pc' = "loop"
    /\ target' = "CASH" /\ sig_target' = "CASH"
    /\ reads' = {} /\ prob_reads' = {}
    /\ g_p' = Missing
    /\ UNCHANGED <<g_off, s_off, g_trig, g_rel, g_low, s_low, g_fed>>
    /\ UNCHANGED <<sig_vars, wf_vars, opt_vars, met_vars, ewm_vars>>

\* lines 132-223 as in Step, every date having a probability
StepDaily ==
    /\ pc = "loop"
    /\ i < n
    /\ \E p3 \in Prices300(n), p1 \in Prices1000,
          p_risk \in Probs :
         LET c3 == [k \in 0 .. i |-> IF k = i THEN p3 ELSE close300[k]]
             c1 == [k \in 0 .. i |-> IF k = i THEN p1 ELSE close1000[k]]
             nav == Settle(curve, pos, i)
             sgt == SignalTarget(c3, c1, i, momentum_window, ma_window)
             gate == InlineGate(use_ml, risk_off, p_risk)
             tgt == IF gate.force_cash THEN "CASH" ELSE sgt
             cost == CostFactor(CostMult(pos, tgt))
             closes == ClosesTrade(pos, tgt, entry_date)
             opens == tgt # pos /\ tgt # "CASH"
         IN
           /\ close300' = c3
           /\ close1000' = c1
           /\ sig_target' = sgt
           /\ target' = tgt
           /\ risk_off' = gate.risk_off
           /\ trades' = IF closes
                        THEN Append(trades, MakeTrade(pos, entry_date, entry_val,
                                                      i, nav, gate.exit_reason))
                        ELSE trades
           /\ entry_date' = NewEntryDate(pos, tgt, entry_date, i)
           /\ entry_val' = IF opens THEN EntryValue(nav, cost) ELSE entry_val
           /\ curve' = [curve EXCEPT ![i] = IF tgt # pos THEN Mul(nav, cost) ELSE nav]
           /\ pos' = tgt
           /\ reads' = DayReads(i, momentum_window, ma_window)
           /\ prob_reads' = IF use_ml THEN {i} ELSE {}
           /\ g_p' = p_risk
    /\ i' = i + 1
    /\ pc' = IF i + 1 < n THEN "loop" ELSE Returned(n, momentum_window, ma_window)
    /\ carried' = FALSE
    /\ UNCHANGED <<n, momentum_window, ma_window, use_ml>>
    /\ UNCHANGED <<g_off, s_off, g_trig, g_rel, g_low, s_low, g_fed>>
    /\ UNCHANGED <<sig_vars, wf_vars, opt_vars, met_vars, ewm_vars>>

\* reports.py lines 348-393: final_signal of SignalGenerator.generate_signal
\* on frames of n rows. last_idx = -1; the momentum is measured against
\* close.iloc[last_idx - momentum_window - 1], the average is the mean of
\* close.iloc[-ma_window:]; prices, averages and momenta are scaled as in
\* SignalTarget. There is no release threshold: ml_alert = ml_prob > ml_trigger.
DailyFinalSignal(c3, c1, mw, ma, ml_prob) ==
    LET last_idx == -1
        rows == SlicePos(-ma, n)
        cnt == Cardinality(rows)
        o300 == Iloc(c3, last_idx - mw - 1)
        o1000 == Iloc(c1, last_idx - mw - 1)
        p300 == Iloc(c3, last_idx)
        p1000 == Iloc(c1, last_idx)
        dmr_signal == DailyDmrSignal(p300 * cnt, p1000 * cnt,
                                     (p300 - o300) * o1000, (p1000 - o1000) * o300,
                                     SumOver(c3, rows), SumOver(c1, rows))
        ml_alert == ml_prob > ml_trigger
    IN  IF ml_alert THEN Flat ELSE dmr_signal

NextDaily == StartRunDaily \/ StepDaily \/ Finish \/ Return
SpecDaily == Init /\ [][NextDaily]_vars

----------------------------------------------------------------------------
(* Properties *)

Simulated == pc \in {"loop", "done"} /\ i > Warmup(momentum_window, ma_window)
LastDay == i - 1

\* C1: whenever risk_off is true at the end of a simulated date, the position
\* held after that date is CASH, for every probability series, complete or not.
C1_RiskOffHoldsCash == (Simulated /\ risk_off) => pos = "CASH"

\* C2: either gate goes from NORMAL to RISK_OFF only on a date whose
\* probability is strictly greater than its trigger, and a series that is
\* constantly equal to the trigger never trips it.
C2_TripStep ==
    /\ (~g_off /\ g_off') => (g_p' # Missing /\ g_p' > ml_trigger)
    /\ (~s_off /\ s_off') => ProbOrZero(g_p') > EffTrigger(g_trig)
C2_ConstantAtTrigger ==
    /\ g_fed = {ml_trigger} => ~g_off
    /\ g_fed = {EffTrigger(g_trig)} => ~s_off
C2_StrictTrigger == [][C2_TripStep]_vars /\ []C2_ConstantAtTrigger
C2_Witness ==
    /\ g_fed = {ml_trigger} /\ EffTrigger(g_trig) = ml_trigger
    /\ g_p = ml_trigger /\ ~g_off /\ ~s_off

\* C3: with trigger > release, a gate that is RISK_OFF stays RISK_OFF on a
\* probability strictly between release and trigger, a probability strictly
\* below release sets it to NORMAL, and a gate that trips again has seen a
\* probability below release since its previous trip.
C3_DeadZoneStep ==
    /\ (g_off /\ g_p' # Missing /\ ml_release < g_p' /\ g_p' < ml_trigger) => g_off'
    /\ (s_off /\ EffTrigger(g_trig) > EffRelease(g_rel)
              /\ EffRelease(g_rel) < ProbOrZero(g_p')
              /\ ProbOrZero(g_p') < EffTrigger(g_trig)) => s_off'
C3_ReleaseStep ==
    /\ (g_off /\ g_p' # Missing /\ g_p' < ml_release) => ~g_off'
    /\ (s_off /\ ProbOrZero(g_p') < EffRelease(g_rel)) => ~s_off'
C3_RetripStep ==
    /\ (~g_off /\ g_off' /\ g_low # "never") => g_low = "yes"
    /\ (~s_off /\ s_off' /\ s_low # "never") => s_low = "yes"
C3_Released ==
    /\ (g_p # Missing /\ g_p < ml_release) => ~g_off
    /\ (EffTrigger(g_trig) > EffRelease(g_rel)
           /\ ProbOrZero(g_p) < EffRelease(g_rel)) => ~s_off
C3_Hysteresis ==
    [][C3_DeadZoneStep /\ C3_ReleaseStep /\ C3_RetripStep]_vars /\ []C3_Released
C3_Witness ==
    /\ g_off /\ s_off /\ g_low = "again" /\ s_low = "again"
    /\ ml_release < g_p /\ g_p < ml_trigger
    /\ EffRelease(g_rel) < g_p /\ g_p < EffTrigger(g_trig)
    /\ Cardinality(g_fed) >= 3

\* C4: consecutive trades do not overlap (trade[k].exit_date <=
\* trade[k+1].entry_date), and the held position is one of CASH, 300, 1000.
C4_TradesOrdered ==
    /\ pos \in Positions
    /\ \A k \in 1 .. Len(trades) - 1 :
         trades[k].exit_date <= trades[k + 1].entry_date
C4_Witness ==
    /\ pc = "done" /\ Len(trades) >= 2
    /\ trades[1].exit_date = trades[2].entry_date

\* C5: every trade has entry_date < exit_date and holding_days >= 1.
C5_TradeSpansADay ==
    \A k \in 1 .. Len(trades) :
        trades[k].entry_date < trades[k].exit_date /\ trades[k].holding_days >= 1
C5_Witness ==
    /\ pc = "done" /\ Len(trades) >= 1
    /\ trades[1].exit_date = trades[1].entry_date + 1

\* C6: on every simulated day i, curve[i] = curve[i-1] * (1 + r_i) *
\* (1 - commission * k_i): r_i is the return of the position held entering
\* the day (CASH on the first day), k_i is 0 when the target equals the held
\* position, 1 when exactly one of the two is CASH and 2 otherwise.
C6_Legs(held, tgt) ==
    IF tgt = held THEN 0
    ELSE IF (held = "CASH") # (tgt = "CASH") THEN 1
    ELSE 2
C6_DayStep ==
    (pc = "loop" /\ i' = i + 1) =>
        /\ i = Warmup(momentum_window, ma_window) => pos = "CASH"
        /\ LET settled == Append(curve[i - 1], RetFactor(pos, i))
               legs == C6_Legs(pos, pos')
           IN  curve'[i] = IF legs = 0 THEN settled
                           ELSE Append(settled, [k |-> "cost", a |-> "", i |-> legs])
C6_CurveRecurrence == [][C6_DayStep]_vars
C6_Witness ==
    /\ pc = "done"
    /\ \E d \in DOMAIN curve :
         /\ Len(curve[d]) >= 4
         /\ curve[d][Len(curve[d])] = [k |-> "cost", a |-> "", i |-> 2]

\* C7: the loop advances one date at a time, every close / pct_chg position
\* a simulated day i reads lies in 0..i, and the only probability it looks up
\* is that of date i.
C7_ReadsInPast ==
    Simulated => /\ reads # {}
                 /\ reads \subseteq 0 .. LastDay
                 /\ prob_reads \subseteq {LastDay}
C7_OneDateAtATime == (pc = "loop" /\ i' # i) => i' = i + 1
C7_NoLookAhead == []C7_ReadsInPast /\ [][C7_OneDateAtATime]_vars
C7_Witness ==
    /\ Simulated /\ LastDay = Warmup(momentum_window, ma_window)
    /\ 0 \in reads /\ prob_reads = {LastDay}

\* C8: at every retrain index t the training rows j satisfy
\* t - train_window <= j < t - horizon, and the returns their labels are
\* computed from all have an index below t.
C8_PurgeGap ==
    wf_last # "" =>
        \A j \in wf_train :
            /\ wf_at - wf_tw <= j
            /\ j < wf_at - wf_h
            /\ LabelReturns(j, wf_h, wf_len) \subseteq 0 .. wf_at - 1
C8_Witness ==
    /\ wf_last = "fit"
    /\ wf_at > FirstT(wf_tw, wf_h)
    /\ ~InRange(wf_t, wf_len, wf_h)
    /\ (wf_at - wf_h - 1) \in wf_train
    /\ wf_at - 1 \in LabelReturns(wf_at - wf_h - 1, wf_h, wf_len)

\* C9: with pass[asset] = (price > MA) and (momentum > 0), the rule returns
\* the asset with the strictly larger momentum when both pass, the passing
\* asset when exactly one passes and CASH when none passes; generate_signal
\* and the rule inlined in run_backtest alike.
C9_Expected(tgt) ==
    LET pass300 == sg_in[1] > sg_in[5] /\ sg_in[3] > 0
        pass1000 == sg_in[2] > sg_in[6] /\ sg_in[4] > 0
    IN  /\ (pass300 /\ pass1000 /\ sg_in[3] > sg_in[4]) => tgt = "300"
        /\ (pass300 /\ pass1000 /\ sg_in[4] > sg_in[3]) => tgt = "1000"
        /\ (pass300 /\ ~pass1000) => tgt = "300"
        /\ (~pass300 /\ pass1000) => tgt = "1000"
        /\ (~pass300 /\ ~pass1000) => tgt = "CASH"
        /\ tgt \in Positions
C9_SignalRule ==
    sg_out # << >> => C9_Expected(sg_out[1]) /\ C9_Expected(sg_inline)
C9_Witness ==
    /\ sg_out # << >>
    /\ sg_in[1] > sg_in[5] /\ sg_in[2] > sg_in[6]
    /\ sg_in[3] > sg_in[4] /\ sg_in[4] > 0
    /\ sg_out[1] = "300" /\ sg_inline = "300"

\* C10: every call of run_backtest starts from position CASH, risk_off =
\* false, no trade and a curve of ones, whatever an earlier call on the same
\* engine left behind.
C10_FreshRun ==
    (pc = "loop" /\ i = Warmup(momentum_window, ma_window)) =>
        /\ pos = "CASH" /\ ~risk_off /\ trades = << >>
        /\ entry_date = None /\ entry_val = ZeroVal
        /\ curve = Ones(n)
C10_Witness ==
    /\ pc = "loop" /\ i = Warmup(momentum_window, ma_window)
    /\ carried /\ use_ml /\ n > i

\* C11: the equity_curve a run of run_backtest returns has one value per
\* trading date after warm-up (the dates with index >= warmup), no more.
C11_CurveLength ==
    pc = "done" =>
        Cardinality(DOMAIN curve) = n - Warmup(momentum_window, ma_window)

\* C12: the returned equity curve is exactly 1.0 on the first post-warm-up
\* date, index warmup, the date reported as start_date.
C12_StartsAtOne ==
    pc = "done" => curve[Warmup(momentum_window, ma_window)] = One

\* C13: the gate of run_backtest treats a date without a probability as
\* p = 0: its new state and its override of the target are those of p = 0,
\* so a RISK_OFF gate is released on such a date.
C13_MissingStep ==
    g_p' = Missing =>
        /\ g_off' = InlineGate(TRUE, g_off, 0).risk_off
        /\ InlineGate(TRUE, g_off, g_p').force_cash
               = InlineGate(TRUE, g_off, 0).force_cash
        /\ ~g_off'
C13_MissingIsZero == [][C13_MissingStep]_vars

\* C14: fit_predict never raises: a loop of no iteration, or one whose
\* retrains are all skipped, ends normally with no block of risk_probs
\* written (the all-zero series).
C14_SmallDataNoRaise ==
    /\ wf_pc # "raised"
    /\ (wf_pc = "done" /\ wf_fits = 0) => wf_blocks = << >>

\* C15: run_backtest never raises on a calendar of at most warmup dates
\* (n = 0 included): it returns a result with no simulated day and no trade.
C15_NeverFatal ==
    (pc \in {"done", "raised"} /\ n <= Warmup(momentum_window, ma_window)) =>
        /\ pc = "done"
        /\ trades = << >>
        /\ \A d \in DOMAIN curve : curve[d] = One

\* C16: a call of run_backtest with momentum_window <= 0 or ma_window <= 0
\* is rejected before any day is simulated: it never returns a result, and
\* no day is processed, no position taken and no trade or curve value
\* computed for it.
C16_InvalidWindowRejected ==
    (pc # "idle" /\ (momentum_window <= 0 \/ ma_window <= 0)) =>
        /\ pc # "done"
        /\ i = Warmup(momentum_window, ma_window)
        /\ pos = "CASH" /\ trades = << >> /\ curve = Ones(n)

\* C17: optimize_parameters visits the grid with momentum outer and ma
\* inner, appends one row per combination with its pass flag, a combination
\* passes exactly when total_return > bench_ret and max_drawdown >
\* max_dd_limit, and as soon as a combination has passed the best is the
\* passing combination of maximal score, the first of them in visiting order,
\* with its own result; a failing combination is never the best.
C17_Cell(j) ==
    <<momentum_range[((j - 1) \div Len(ma_range)) + 1],
      ma_range[((j - 1) % Len(ma_range)) + 1]>>
C17_Accepted ==
    {j \in 1 .. Len(results) : /\ results[j].total_return > bench_ret
                               /\ results[j].max_drawdown > max_dd_limit}
C17_IsBest(j) ==
    /\ j \in C17_Accepted
    /\ \A k \in C17_Accepted :
         /\ results[k].sharpe_ratio <= results[j].sharpe_ratio
         /\ results[k].sharpe_ratio = results[j].sharpe_ratio => j <= k
C17_GridSearch ==
    /\ \A j \in 1 .. Len(results) :
         /\ <<results[j].momentum, results[j].ma>> = C17_Cell(j)
         /\ results[j].is_pass = (j \in C17_Accepted)
    /\ op_pc = "done" => Len(results) = Len(momentum_range) * Len(ma_range)
    /\ \A j \in 1 .. Len(results) :
         C17_IsBest(j) =>
            /\ best_params = C17_Cell(j)
            /\ best_score = results[j].sharpe_ratio
            /\ best_result = <<[momentum_window |-> results[j].momentum,
                                ma_window |-> results[j].ma,
                                total_return |-> results[j].total_return,
                                max_drawdown |-> results[j].max_drawdown,
                                sharpe_ratio |-> results[j].sharpe_ratio]>>
    /\ C17_Accepted = {} => best_result = << >>
C17_Witness ==
    /\ op_pc = "done"
    /\ \E j, k, r \in 1 .. Len(results) :
         /\ j < k /\ C17_IsBest(j) /\ k \in C17_Accepted
         /\ results[k].sharpe_ratio = results[j].sharpe_ratio
         /\ r < j /\ r \notin C17_Accepted
         /\ results[r].sharpe_ratio > results[j].sharpe_ratio
         /\ results[j].momentum # results[r].momentum

\* C18: _calculate_metrics does not raise on a non-empty curve of constant
\* NAV or with an empty trade list; on a constant NAV total return, max
\* drawdown, Sharpe and Sortino are 0, and with no trade win rate,
\* profit/loss ratio, the three trade counts and the average holding days
\* are 0.
C18_ConstantNav ==
    Len(mt_curve) >= 1 /\ \A k \in 1 .. Len(mt_curve) : mt_curve[k] = mt_curve[1]
C18_NeutralDefaults ==
    /\ (mt_pc \in {"done", "raised"}
          /\ (C18_ConstantNav \/ (Len(mt_curve) >= 1 /\ mt_trades = << >>)))
       => mt_pc = "done"
    /\ (mt_pc = "done" /\ C18_ConstantNav) =>
          /\ IsZero(mt_out.total_return) /\ IsZero(mt_out.max_drawdown)
          /\ IsZero(mt_out.sharpe_ratio) /\ IsZero(mt_out.sortino_ratio)
    /\ (mt_pc = "done" /\ mt_trades = << >>) =>
          /\ IsZero(mt_out.win_rate) /\ IsZero(mt_out.profit_loss_ratio)
          /\ mt_out.total_trades = 0 /\ mt_out.winning_trades = 0
          /\ mt_out.losing_trades = 0 /\ IsZero(mt_out.avg_holding_days)
C18_Witness ==
    /\ mt_pc = "done" /\ C18_ConstantNav /\ Len(mt_curve) >= 3
    /\ mt_trades = << >>
    /\ mt_out.sharpe_ratio = Zero /\ mt_out.win_rate = Zero

\* C19: on a simulated day a Trade is appended exactly when the effective
\* target differs from a held non-CASH position: one trade, for the asset
\* that was held, entered on the date that position was opened and exited
\* today; a new entry is opened exactly when the position changes to an
\* asset. So the trades are as many as the exits from a non-CASH position so
\* far, and a position still open at the end has no Trade.
C19_HasCost(v) == v # << >> /\ v[Len(v)].k = "cost"
\* the position held entering day d, read off the factor settled that day
C19_HeldOn(d) == curve[d][Len(curve[d - 1]) + 1].a
C19_ExitDays ==
    {d \in Warmup(momentum_window, ma_window) .. i - 1 :
        C19_HasCost(curve[d]) /\ C19_HeldOn(d) # "CASH"}
\* the last day before day d on which the position changed
C19_OpenedOn(d) ==
    CHOOSE e \in 0 .. d - 1 :
        /\ C19_HasCost(curve[e])
        /\ \A f \in e + 1 .. d - 1 : ~C19_HasCost(curve[f])
C19_DayStep ==
    (pc = "loop" /\ i' = i + 1) =>
        /\ pos' = target'
        /\ IF pos # "CASH" /\ target' # pos
           THEN /\ Len(trades') = Len(trades) + 1
                /\ SubSeq(trades', 1, Len(trades)) = trades
                /\ trades'[Len(trades')].asset = pos
                /\ trades'[Len(trades')].entry_date = C19_OpenedOn(i)
                /\ trades'[Len(trades')].exit_date = i
           ELSE trades' = trades
        /\ IF target' # pos /\ target' # "CASH"
           THEN entry_date' = i
           ELSE entry_date' = entry_date
C19_Count ==
    pc \in {"loop", "done"} =>
        /\ Len(trades) = Cardinality(C19_ExitDays)
        /\ pos # "CASH" =>
              \A k \in 1 .. Len(trades) : trades[k].exit_date <= entry_date
C19_TradePerExit == [][C19_DayStep]_vars /\ []C19_Count
C19_Witness ==
    /\ pc = "done" /\ pos # "CASH" /\ Len(trades) >= 2
    /\ trades[Len(trades)].exit_date = entry_date
    /\ trades[Len(trades)].asset # pos

\* C20: a Trade's exit_reason is the ML-risk reason exactly when the gate is
\* RISK_OFF at the end of the trade's exit date; every other trade, and every
\* trade of a run without probabilities, has the reason "signal switch".
C20_ExitStep ==
    (pc = "loop" /\ i' = i + 1 /\ Len(trades') = Len(trades) + 1) =>
        LET t == trades'[Len(trades')] IN
        /\ (t.exit_reason.kind = "ml") <=> risk_off'
        /\ t.exit_reason.kind # "ml" => t.exit_reason = SignalSwitch
        /\ ~use_ml => t.exit_reason = SignalSwitch
C21_BothPassTie ==
    /\ sg_out # << >>
    /\ sg_in[1] > sg_in[5] /\ sg_in[3] > 0
    /\ sg_in[2] > sg_in[6] /\ sg_in[4] > 0
    /\ sg_in[3] = sg_in[4]
C21_TieFavoursFirst ==
    C21_BothPassTie => sg_out[1] = "300" /\ sg_inline = "300"
\* C21 (amended): when both assets pass and their momenta are equal, the
\* SignalRule, in generate_signal and inlined in run_backtest, selects the
\* asset checked second, "1000".
C21_TieFavoursSecond ==
    C21_BothPassTie => sg_out[1] = "1000" /\ sg_inline = "1000"
C21_Witness ==
    C21_BothPassTie /\ sg_inline = "1000" /\ sg_in[1] = sg_in[2]

\* C22: on equal momenta with both assets passing, asset B ("1000") wins in
\* DMRStrategy.generate_signal, in the rule inlined in run_backtest and in
\* SignalGenerator.generate_signal; the three rules agree on every input.
C22_AssetBWinsTies ==
    sg_out # << >> =>
        /\ sg_inline = sg_out[1]
        /\ sg_daily = SignalName(sg_out[1])
        /\ (sg_in[1] > sg_in[5] /\ sg_in[2] > sg_in[6]
               /\ sg_in[3] > 0 /\ sg_in[3] = sg_in[4]) => sg_daily = Csi1000
C22_Witness ==
    /\ sg_out # << >>
    /\ sg_in[1] > sg_in[5] /\ sg_in[2] > sg_in[6]
    /\ sg_in[3] = 2 /\ sg_in[4] = 2
    /\ sg_daily = Csi1000 /\ sg_out[1] = "1000"

\* C23: a retrain at index t is skipped exactly when fewer than 100 rows of
\* [t - train_window, t - horizon) are left without a missing value or the
\* labels have fewer than two classes; a skipped retrain fits no model and
\* writes nothing, its block [t, t + step) stays unwritten, and the loop goes
\* on to every later retrain index.
C23_ValidRows ==
    {j \in 0 .. wf_len - 1 :
        wf_at - wf_tw <= j /\ j < wf_at - wf_h /\ j >= wf_nan}
C23_Written == UNION {wf_blocks[k] : k \in 1 .. Len(wf_blocks)}
C23_Visited ==
    {t \in FirstT(wf_tw, wf_h) .. wf_t - 1 :
        (t - FirstT(wf_tw, wf_h)) % wf_step = 0}
C23_Skipped == {t \in C23_Visited : t \notin C23_Written}
C23_SkipStep ==
    (wf_pc = "loop" /\ wf_t' # wf_t /\ wf_last' = "skip") =>
        /\ wf_blocks' = wf_blocks /\ wf_fits' = wf_fits
        /\ wf_pc' = "loop" /\ wf_t' = wf_t + wf_step
C23_SkipState ==
    /\ wf_last # "" =>
          (wf_last = "skip" <=>
              (Cardinality(C23_ValidRows) < MinTrainRows \/ wf_classes < 2))
    /\ wf_pc # "idle" =>
          /\ \A t \in C23_Skipped : (t .. t + wf_step - 1) \cap C23_Written = {}
          /\ wf_fits = Cardinality(C23_Visited) - Cardinality(C23_Skipped)
    /\ wf_pc \in {"done", "raised"} => wf_t >= wf_len - wf_h
C23_SkipRule == [][C23_SkipStep]_vars /\ []C23_SkipState
C23_Witness ==
    /\ wf_pc = "done" /\ wf_last = "fit" /\ wf_fits = 1
    /\ Cardinality(C23_Skipped) = 1
    /\ wf_at > FirstT(wf_tw, wf_h)

\* C25: the raw series is append-only: the blocks written by successive
\* retrains are pairwise disjoint and increasing in date, a retrain only adds
\* a block after the ones already written, and no date before
\* train_window + horizon is written.
C25_AppendStep ==
    wf_blocks' # wf_blocks =>
        /\ Len(wf_blocks') = Len(wf_blocks) + 1
        /\ SubSeq(wf_blocks', 1, Len(wf_blocks)) = wf_blocks
C25_Blocks ==
    /\ \A j, k \in 1 .. Len(wf_blocks) :
         j < k => \A a \in wf_blocks[j], b \in wf_blocks[k] : a < b
    /\ \A k \in 1 .. Len(wf_blocks) :
         /\ wf_blocks[k] # {}
         /\ \A d \in wf_blocks[k] : FirstT(wf_tw, wf_h) <= d /\ d < wf_len
C25_AppendOnly == [][C25_AppendStep]_vars /\ []C25_Blocks
C25_Witness ==
    /\ wf_pc = "done" /\ Len(wf_blocks) >= 2
    /\ \E a \in wf_blocks[1] : a + 1 \in wf_blocks[2]
    /\ FirstT(wf_tw, wf_h) \in wf_blocks[1]

\* C29: when no retrain is skipped, every date from train_window + horizon
\* to the last date of the series has a model-predicted raw probability.
C29_Retrains ==
    {t \in FirstT(wf_tw, wf_h) .. wf_t - 1 :
        (t - FirstT(wf_tw, wf_h)) % wf_step = 0}
C29_NoTrailingGap ==
    (wf_pc = "done" /\ wf_fits = Cardinality(C29_Retrains)) =>
        UNION {wf_blocks[k] : k \in 1 .. Len(wf_blocks)}
            = FirstT(wf_tw, wf_h) .. wf_len - 1


\* C24: when a retrain is skipped, the smoothed probabilities of its block
\* stay at the smoothed value of the previous block's last date, or at 0 when
\* the skipped block is the first one.
C24_PrevLast(b) == LeadRows + (b - 1) * ew_step
C24_SkippedBlockHolds ==
    ew_pc = "done" =>
        \A b \in 1 .. Len(ew_fit) :
            ~ew_fit[b] =>
                \A t \in BlockRows(b, ew_step) :
                    IF b = 1 THEN IsZero(risk_probs_[t])
                    ELSE FracEq(risk_probs_[t], risk_probs_[C24_PrevLast(b)])


\* C26: optimize_parameters runs every combination without ML gating: each
\* run_backtest call of the grid receives ml_probs = None, whatever the
\* ml_probs argument is, so no output can depend on that argument.
C26_GridIgnoresMl ==
    /\ Len(op_calls) = Len(results)
    /\ \A k \in 1 .. Len(op_calls) : op_calls[k] = FALSE
C26_Witness == op_pc = "done" /\ op_ml /\ Len(op_calls) >= 2


\* C27: the return_pct of every trade is the compounded return of the held
\* asset over the days after its entry day up to and including its exit day;
\* no commission factor is part of it.
C27_Compounded(asset, e, x) == [d \in 1 .. x - e |-> RetFactor(asset, e + d)]
C27_ReturnExcludesCost ==
    \A k \in 1 .. Len(trades) :
        trades[k].return_pct =
            C27_Compounded(trades[k].asset, trades[k].entry_date, trades[k].exit_date)
\* a trade entered by an asset-to-asset switch, at twice the commission
C27_Witness ==
    /\ pc = "done" /\ Len(trades) >= 2
    /\ LET t == trades[Len(trades)]
       IN /\ t.entry_date = trades[Len(trades) - 1].exit_date
          /\ t.asset # trades[Len(trades) - 1].asset
          /\ t.exit_date > t.entry_date


\* C28: with a complete probability series the daily signal agrees with the
\* simulator: for the last date it reports cash exactly when the run ends in
\* CASH, and otherwise the asset the run holds.
C28_DailyAgrees ==
    pc = "done" =>
        DailyFinalSignal(close300, close1000, momentum_window, ma_window, g_p)
            = SignalName(pos)


\* C30: the pair optimize_parameters returns is one of the combinations it
\* evaluated and the returned best result is the result of that pair, also
\* when no combination passes the acceptance filter.
C30_ResultOf(j) ==
    [momentum_window |-> results[j].momentum, ma_window |-> results[j].ma,
     total_return |-> results[j].total_return,
     max_drawdown |-> results[j].max_drawdown,
     sharpe_ratio |-> results[j].sharpe_ratio]
C30_ReturnsEvaluatedPair ==
    op_pc = "done" =>
        \E j \in 1 .. Len(results) :
            /\ best_params = <<results[j].momentum, results[j].ma>>
            /\ best_result = <<C30_ResultOf(j)>>

============================================================================
